---- MODULE Spec2Model ----
(***************************************************************************)
(* Per-frame user-script engine of src/src/components/engine.jsx.          *)
(*                                                                         *)
(* The model covers the Engine component's React state (mode, script       *)
(* texts, loaded models, script selection), the Scene component's refs     *)
(* (script caches, overlay root), the passive effect that resets the       *)
(* caches after a render, and the useFrame callback that constructs and    *)
(* invokes the script units.  It also covers what the scripts are handed:  *)
(* the lookups by name, the shared animation mixer, the overlay, the input *)
(* object of useInput, and the script generation stream with its history.  *)
(*                                                                         *)
(* Slots are numbered 0 for the Scene slot and i >= 1 for the Entity slot  *)
(* at array index i-1 of uploadedModels / modelScripts.  selectedScript is *)
(* -1 for null, 0 for 'scene' and i >= 1 for the number i-1.               *)
(***************************************************************************)
EXTENDS Integers, Sequences, FiniteSets, TLC

\* ------------------------------------------------------------------ bounds
MaxModels == 2
MaxFrames == 2
MaxEdits == 1
MaxPlayEdits == 2
MaxChunks == 2
MaxGenerations == 2

\* ------------------------------------------------------------ source texts
DEFAULT_SCENE_SCRIPT == "DEFAULT_SCENE_SCRIPT"
DEFAULT_MODEL_SCRIPT == "DEFAULT_MODEL_SCRIPT"

\* An array hole and the value undefined, as elements of modelScripts.
Hole == "<hole>"
Undefined == "<undefined>"

\* The texts an edit can put into a slot.  Each stands for a script with
\* the behaviour ScriptSem gives it.
EditTexts ==
  {"", "hud", "counter", "throwUpdate", "throwTop", "throwOutside",
   "syntaxErr", "noReturn", "returnNull"}

\* Texts whose update calls playAnimation once, with the arguments
\* ScriptPlay gives.
PlayTexts ==
  {"playIdleA", "playWalkC", "playFlyA", "playWalkB", "playWalkMissing"}

\* Texts whose update calls stopAnimation once, with the name ScriptStop
\* gives.
StopTexts == {"stopA", "stopMissing"}

\* Texts whose update calls createHTML or removeHTML once.
OverlayTexts ==
  {"hud", "textOnly", "removeGameUI", "removeMissing", "removeOverlay"}

\* Texts whose update reads or writes input.keys.w.
InputTexts == {"readInput", "writeInput"}

\* Texts whose update looks an entity and its clips up by name.
LookupTexts == {"lookupHero", "lookupA"}

Texts ==
  EditTexts \cup PlayTexts \cup StopTexts \cup OverlayTexts \cup InputTexts
    \cup LookupTexts \cup {DEFAULT_SCENE_SCRIPT, DEFAULT_MODEL_SCRIPT}

\* No call of playAnimation.
NoPlay == [name |-> "", clip |-> ""]

\* The playAnimation(modelName, animationName) call of a text's update.
ScriptPlay(s) ==
  CASE s = "playIdleA"       -> [name |-> "a.glb", clip |-> "idle"]
    [] s = "playWalkC"       -> [name |-> "c.fbx", clip |-> "walk"]
    [] s = "playFlyA"        -> [name |-> "a.glb", clip |-> "fly"]
    [] s = "playWalkB"       -> [name |-> "b.obj", clip |-> "walk"]
    [] s = "playWalkMissing" -> [name |-> "missing", clip |-> "walk"]
    [] OTHER                 -> NoPlay

\* No call of stopAnimation.
NoStop == "<none>"

\* The stopAnimation(modelName) call of a text's update.
ScriptStop(s) ==
  CASE s = "stopA"       -> "a.glb"
    [] s = "stopMissing" -> "missing"
    [] OTHER             -> NoStop

\* The id a text's update passes to removeHTML ("" none).
ScriptRemove(s) ==
  CASE s = "removeGameUI"  -> "gameUI"
    [] s = "removeMissing" -> "missing"
    [] s = "removeOverlay" -> "scriptOverlay"
    [] OTHER               -> ""

\* The name a text's update passes to getModelByName and
\* getAnimationsForModel ("" none).
ScriptLookup(s) ==
  CASE s = "lookupHero" -> "hero"
    [] s = "lookupA"    -> "a.glb"
    [] OTHER            -> ""

\* What a source text does when the driver wraps it in
\*   try { <text> } catch (error) { ...; return { update: () => {} }; }
\* and runs it:
\*   parses   the wrapped body is accepted by new Function
\*   outside  the text closes the wrapper's try block and throws after it
\*   top      its top-level statements throw inside the wrapper
\*   ret      the value the body returns when nothing throws
\*   upd      update throws on every call
\*   html     the fragment update passes to createHTML ("" none): the id of
\*            its root element, or "#text" for a fragment of text only
\*   cnt      update increments userData.counter of its first argument
Sem(parses, outside, top, ret, upd, html, cnt) ==
  [parses |-> parses, outside |-> outside, top |-> top, ret |-> ret,
   upd |-> upd, html |-> html, cnt |-> cnt]

ScriptSem(s) ==
  CASE s = DEFAULT_SCENE_SCRIPT -> Sem(TRUE, FALSE, FALSE, "unit", FALSE, "gameUI", FALSE)
    [] s = DEFAULT_MODEL_SCRIPT -> Sem(TRUE, FALSE, FALSE, "unit", FALSE, "", FALSE)
    [] s = "hud"                -> Sem(TRUE, FALSE, FALSE, "unit", FALSE, "hud", FALSE)
    [] s = "counter"            -> Sem(TRUE, FALSE, FALSE, "unit", FALSE, "", TRUE)
    [] s = "throwUpdate"        -> Sem(TRUE, FALSE, FALSE, "unit", TRUE, "", FALSE)
    [] s = "throwTop"           -> Sem(TRUE, FALSE, TRUE, "unit", FALSE, "", FALSE)
    [] s = "throwOutside"       -> Sem(TRUE, TRUE, FALSE, "unit", FALSE, "", FALSE)
    [] s = "syntaxErr"          -> Sem(FALSE, FALSE, FALSE, "unit", FALSE, "", FALSE)
    [] s = "noReturn"           -> Sem(TRUE, FALSE, FALSE, "undefined", FALSE, "", FALSE)
    [] s = "returnNull"         -> Sem(TRUE, FALSE, FALSE, "null", FALSE, "", FALSE)
    [] s = "textOnly"           -> Sem(TRUE, FALSE, FALSE, "unit", FALSE, "#text", FALSE)
    [] s \in PlayTexts \cup StopTexts \cup OverlayTexts \cup InputTexts
             \cup LookupTexts
                                -> Sem(TRUE, FALSE, FALSE, "unit", FALSE, "", FALSE)
    [] OTHER                    -> Sem(TRUE, FALSE, FALSE, "undefined", FALSE, "", FALSE)

\* JavaScript truthiness of an element of modelScripts / of sceneScript.
Truthy(s) == s \notin {"", Hole, Undefined}

\* ------------------------------------------------------------ module values
\* kind "null" / "undefined": the falsy values; "unit": the object the
\* script returned; "noop": the { update: () => {} } substitute.  src is the
\* text the object was constructed from and id tells objects of a slot apart.
NullModule == [kind |-> "null", src |-> "", id |-> 0]
UndefinedModule == [kind |-> "undefined", src |-> "", id |-> 0]
UnitModule(s, n) == [kind |-> "unit", src |-> s, id |-> n]
NoopModule(s, n) == [kind |-> "noop", src |-> s, id |-> n]

Falsy(m) == m.kind \in {"null", "undefined"}

\* A cache entry { script, module }; present = FALSE is an index of
\* modelScriptsRef.current that holds nothing.
Entry(s, m) == [present |-> TRUE, script |-> s, module |-> m]
NoEntry == [present |-> FALSE, script |-> "", module |-> NullModule]

Slots == 0..MaxModels
EntitySlots == 1..MaxModels

VARIABLES
  isEditMode,      \* Engine state isEditMode
  sceneScript,     \* Engine state sceneScript
  modelScripts,    \* Engine state modelScripts (array, may hold holes)
  uploadedModels,  \* Engine state uploadedModels (entity ids)
  modelNames,      \* Engine state modelNames
  selectedScript,  \* Engine state selectedScript
  sceneScriptRef,  \* Scene ref sceneScriptRef.current
  modelScriptsRef, \* Scene ref modelScriptsRef.current, by slot
  overlayRef,      \* Scene ref overlayRef.current is set
  overlay,         \* ids of the overlay root's children, in order
  userData,        \* userData.counter of the scene (0) and of each entity
  effectPending,   \* a committed render's passive effects have not run yet
  trace,           \* what the last frame callback did, in order
  escaped,         \* an exception left the last frame callback
  changed,         \* per slot, its text changed in running mode since the last running frame
  ranTop,          \* per slot, its text's top-level statements ran since the text last changed
  compiles,        \* per slot, constructions that produced a module so far
  frameCount,      \* running-mode frames so far
  editCount,       \* handleScriptChange calls so far
  entered,         \* running mode was entered and no frame has run in it yet
  created,         \* entities created so far (loads and duplications)
  modelFiles,      \* per entity, the file its object was loaded from
  mixer,           \* Engine state mixer is not null
  playing,         \* the <<entity, clip>> actions playing on the mixer
  activeModel,     \* Engine state activeModel (0 for null)
  activeModelIndex, \* Engine state activeModelIndex (0 for null, else index + 1)
  foreignOverlay,  \* the document held an element with id scriptOverlay at mount
  input,           \* useInput's state object: input.keys.w as the scripts find it
  pressed,         \* the w key is down, by the key events received
  generation,      \* the generateScript call in flight, with what it captured
  history          \* the conversations in localStorage, newest first

vars ==
  <<isEditMode, sceneScript, modelScripts, uploadedModels, modelNames,
    selectedScript, sceneScriptRef, modelScriptsRef, overlayRef, overlay,
    userData, effectPending, trace, escaped, changed, ranTop, compiles,
    frameCount,
    editCount, entered, created, modelFiles, mixer, playing,
    activeModel, activeModelIndex, foreignOverlay, input, pressed,
    generation, history>>

\* No generateScript call is in flight; calls counts the calls made so far
\* and streams the calls that have not returned.
Idle == [active |-> FALSE, selectedScript |-> -1, modelScripts |-> <<>>,
         prompt |-> "", generatedScript |-> "", chunks |-> 0, calls |-> 0,
         streams |-> 0]

\* The state once the Engine component has mounted in a document that held
\* (foreign) or did not hold an element with id scriptOverlay, over a
\* localStorage that holds the conversations stored.
MountedOver(foreign, stored) ==
  /\ isEditMode = TRUE
  /\ sceneScript = DEFAULT_SCENE_SCRIPT
  /\ modelScripts = <<>>
  /\ uploadedModels = <<>>
  /\ modelNames = <<>>
  /\ selectedScript = -1
  /\ sceneScriptRef = Entry("", NullModule)
  /\ modelScriptsRef = [i \in EntitySlots |-> NoEntry]
  /\ overlayRef = FALSE
  /\ overlay = <<>>
  /\ userData = [e \in 0..MaxModels |-> 0]
  /\ effectPending = TRUE
  /\ trace = <<>>
  /\ escaped = FALSE
  /\ changed = [s \in Slots |-> FALSE]
  /\ ranTop = [s \in Slots |-> FALSE]
  /\ compiles = [s \in Slots |-> 0]
  /\ frameCount = 0
  /\ editCount = 0
  /\ entered = FALSE
  /\ created = 0
  /\ modelFiles = [e \in 1..MaxModels |-> ""]
  /\ mixer = FALSE
  /\ playing = {}
  /\ activeModel = 0
  /\ activeModelIndex = 0
  /\ foreignOverlay = foreign
  /\ input = FALSE
  /\ pressed = FALSE
  /\ generation = Idle
  /\ history = stored

\* The mount of a first visit: localStorage holds no conversations.
Mounted(foreign) == MountedOver(foreign, <<>>)

Init == Mounted(FALSE)

\* The values that only the overlay, input and generation handlers change.
boundary == <<foreignOverlay, pressed, generation, history>>

\* ------------------------------------------------------- the frame callback
\* The callback's working state: the refs and the world the scripts write,
\* the record of what happened, and exc = an exception is propagating.
Ev(slot, ev, src, id) == [slot |-> slot, ev |-> ev, src |-> src, id |-> id]

Emit(f, e) == [f EXCEPT !.trace = Append(@, e)]

\* console.error at the catch named by `at`.
LogError(f, slot, at) == Emit(f, Ev(slot, at, "", 0))

Throw(f) == [f EXCEPT !.exc = TRUE]
Caught(f) == [f EXCEPT !.exc = FALSE]

\* The first argument of a slot's unit: the scene (0) or the entity at the
\* slot's index.
FirstArg(slot) == IF slot = 0 THEN 0 ELSE uploadedModels[slot]

\* The clips of a loaded file, and model.animations of an entity: the
\* loaders give a glTF or FBX object its clips, an OBJ object has none.
FileClips(fileName) ==
  CASE fileName = "a.glb" -> <<"idle", "walk">>
    [] fileName = "c.fbx" -> <<"walk">>
    [] OTHER -> <<>>

Animations(e) == IF e = 0 THEN <<>> ELSE FileClips(modelFiles[e])

\* modelAnimations.find(anim => anim.name === animationName) finds a clip.
HasClip(modelAnimations, animationName) ==
  \E k \in 1..Len(modelAnimations) : modelAnimations[k] = animationName

\* Object3D.name of an entity's root object; the loaders leave it empty.
ObjectName(e) == ""

\* getModelByName that returns the entity at the last position with the name.
getModelByNameLast(name) ==
  IF \A i \in 1..Len(modelNames) : modelNames[i] # name THEN 0
  ELSE uploadedModels[CHOOSE i \in 1..Len(modelNames) :
                        /\ modelNames[i] = name
                        /\ \A j \in (i + 1)..Len(modelNames) : modelNames[j] # name]

\* modelNames.indexOf(name), then uploadedModels[index] or null (0).
getModelByName(name) ==
  IF \A i \in 1..Len(modelNames) : modelNames[i] # name THEN 0
  ELSE uploadedModels[CHOOSE i \in 1..Len(modelNames) :
                        /\ modelNames[i] = name
                        /\ \A j \in 1..(i - 1) : modelNames[j] # name]

\* model?.animations || []
getAnimationsForModel(modelName) == Animations(getModelByName(modelName))

\* mixer.stopAllAction()
stopAllAction(f) == [f EXCEPT !.playing = {}]

\* mixer.clipAction(animation, model) ... action.play()
play(f, model, animationName) ==
  [f EXCEPT !.playing = @ \cup {<<model, animationName>>}]

\* Engine's handlePlayAnimation, which playAnimation calls as
\* onPlayAnimation: it looks the clip up on the active model.
handlePlayAnimation(f, slot, animationName) ==
  IF activeModel = 0 THEN Emit(f, Ev(slot, "noModelOrAnimations", "", 0))
  ELSE IF ~HasClip(Animations(activeModel), animationName)
    THEN Emit(f, Ev(slot, "activeAnimationNotFound", "", 0))
  ELSE IF ~mixer THEN f
  ELSE play(stopAllAction(Emit(f, Ev(slot, "playing", animationName, activeModel))),
            activeModel, animationName)

\* PlayOn without mixer.stopAllAction() before the clip is played.
PlayOnKeeping(f, slot, targetModel, animationName) ==
  IF targetModel = 0 THEN Emit(f, Ev(slot, "noModelFound", "", 0))
  ELSE IF Len(Animations(targetModel)) = 0
    THEN Emit(f, Ev(slot, "noAnimationsFound", "", 0))
  ELSE IF ~HasClip(Animations(targetModel), animationName)
    THEN Emit(f, Ev(slot, "animationNotFound", "", 0))
  ELSE handlePlayAnimation(
         play(Emit(f, Ev(slot, "playing", animationName, targetModel)),
              targetModel, animationName),
         slot, animationName)

\* playAnimation from the lookup of the clip on.
PlayOn(f, slot, targetModel, animationName) ==
  IF targetModel = 0 THEN Emit(f, Ev(slot, "noModelFound", "", 0))
  ELSE IF Len(Animations(targetModel)) = 0
    THEN Emit(f, Ev(slot, "noAnimationsFound", "", 0))
  ELSE IF ~HasClip(Animations(targetModel), animationName)
    THEN Emit(f, Ev(slot, "animationNotFound", "", 0))
  ELSE handlePlayAnimation(
         play(stopAllAction(Emit(f, Ev(slot, "playing", animationName, targetModel))),
              targetModel, animationName),
         slot, animationName)

\* Scene's playAnimation(modelName, animationName).
playAnimation(f, slot, modelName, animationName) ==
  IF ~mixer THEN f
  ELSE PlayOn(f, slot,
              IF activeModel # 0 /\ modelName = ObjectName(activeModel)
                THEN activeModel
                ELSE getModelByName(modelName),
              animationName)

\* Engine's handleStopAnimation, which stopAnimation calls as onStopAnimation.
handleStopAnimation(f) == IF mixer THEN stopAllAction(f) ELSE f

\* Scene's stopAnimation(modelName).
stopAnimation(f, modelName) ==
  handleStopAnimation(IF mixer THEN stopAllAction(f) ELSE f)

\* The playAnimation or stopAnimation call an update makes, if its text has
\* one.  The default model script plays 'idle' on model.name while the w key
\* is down in the input it is given, and stops model.name otherwise.
ScriptPlayCall(f, slot, m) ==
  IF m.src = DEFAULT_MODEL_SCRIPT
    THEN IF f.input
      THEN playAnimation(Emit(f, Ev(slot, "playCall", m.src, m.id)), slot,
                         ObjectName(FirstArg(slot)), "idle")
      ELSE stopAnimation(Emit(f, Ev(slot, "stopCall", m.src, m.id)),
                         ObjectName(FirstArg(slot)))
  ELSE IF ScriptStop(m.src) # NoStop
    THEN stopAnimation(Emit(f, Ev(slot, "stopCall", m.src, m.id)),
                       ScriptStop(m.src))
  ELSE IF ScriptPlay(m.src) = NoPlay THEN f
  ELSE playAnimation(Emit(f, Ev(slot, "playCall", m.src, m.id)), slot,
                     ScriptPlay(m.src).name, ScriptPlay(m.src).clip)

\* temp.innerHTML = html; temp.firstElementChild: the id of the fragment's
\* first element, "" when the fragment holds text only.
FirstElementChild(html) == IF html = "#text" THEN "" ELSE html

\* createHTML that does not append an element whose id the overlay holds.
createHTMLOnce(f, html) ==
  IF ~overlayRef THEN f
  ELSE IF FirstElementChild(html) = "" THEN f
  ELSE IF \E k \in 1..Len(f.overlay) : f.overlay[k] = FirstElementChild(html)
    THEN f
  ELSE [f EXCEPT !.overlay = Append(@, FirstElementChild(html))]

createHTML(f, html) ==
  IF ~overlayRef THEN f
  ELSE IF FirstElementChild(html) = "" THEN f
  ELSE [f EXCEPT !.overlay = Append(@, FirstElementChild(html))]

\* The createHTML call an update makes, if its text has one.
ScriptCreateCall(f, slot, m) ==
  IF ScriptSem(m.src).html = "" THEN f
  ELSE createHTML(Emit(f, Ev(slot, "createCall", ScriptSem(m.src).html, m.id)),
                  ScriptSem(m.src).html)

\* The sequence without its element at position k.
RemoveAt(seq, k) == [j \in 1..(Len(seq) - 1) |-> IF j < k THEN seq[j] ELSE seq[j + 1]]

\* The position of the first child of the overlay with the id (0 if none).
FirstChildWithId(children, id) ==
  IF \A k \in 1..Len(children) : children[k] # id THEN 0
  ELSE CHOOSE k \in 1..Len(children) :
         /\ children[k] = id
         /\ \A j \in 1..(k - 1) : children[j] # id

\* document.getElementById(id): -1 for the element with id scriptOverlay
\* (which precedes its children in document order), a position among the
\* overlay's children, or 0 for null.
OverlayId == "scriptOverlay"

getElementById(f, id) ==
  IF id = OverlayId /\ (overlayRef \/ foreignOverlay) THEN -1
  ELSE IF overlayRef THEN FirstChildWithId(f.overlay, id)
  ELSE 0

\* overlayRef.current.removeChild(element): a NotFoundError when the element
\* is not a child of the overlay root.
removeChild(f, slot, element) ==
  IF element = -1 THEN Throw(Emit(f, Ev(slot, "notFoundError", "", 0)))
  ELSE [f EXCEPT !.overlay = RemoveAt(@, element)]

\* removeHTML that does not look at overlayRef.current.
removeHTMLUnguarded(f, slot, id) ==
  IF getElementById(f, id) # 0
    THEN IF overlayRef THEN removeChild(f, slot, getElementById(f, id))
         ELSE Throw(Emit(f, Ev(slot, "typeError", "", 0)))
    ELSE f

removeHTML(f, slot, id) ==
  IF getElementById(f, id) # 0 /\ overlayRef
    THEN removeChild(f, slot, getElementById(f, id))
    ELSE f

\* The removeHTML call an update makes, if its text has one.
ScriptRemoveCall(f, slot, m) ==
  IF f.exc \/ ScriptRemove(m.src) = "" THEN f
  ELSE removeHTML(Emit(f, Ev(slot, "removeCall", ScriptRemove(m.src), m.id)),
                  slot, ScriptRemove(m.src))

\* What an update does with the input object it is given: a text can read
\* input.keys.w and, the object being the one useInput keeps, assign to it.
ScriptInputCall(f, slot, m) ==
  IF m.src = "readInput"
    THEN Emit(f, Ev(slot, "observed", IF f.input THEN "w" ELSE "", m.id))
  ELSE IF m.src = "writeInput" THEN [f EXCEPT !.input = TRUE]
  ELSE f

\* The getModelByName and getAnimationsForModel calls an update makes, if
\* its text has them: the record holds what they returned.
ScriptLookupCall(f, slot, m) ==
  IF ScriptLookup(m.src) = "" THEN f
  ELSE Emit(f, [slot |-> slot, ev |-> "lookup", src |-> ScriptLookup(m.src),
                id |-> getModelByName(ScriptLookup(m.src)),
                clips |-> getAnimationsForModel(ScriptLookup(m.src))])

\* The calls of an update, in the order the text makes them.
ScriptCalls(f, slot, m) ==
  ScriptRemoveCall(
    ScriptPlayCall(
      ScriptLookupCall(ScriptInputCall(ScriptCreateCall(f, slot, m), slot, m),
                       slot, m),
      slot, m),
    slot, m)

\* new Function(..., `try { ${script} } catch (error) { ... }`): a
\* SyntaxError is thrown when the wrapped text does not parse.
NewFunction(f, slot, s) ==
  LET f1 == Emit(f, Ev(slot, "parse", s, 0))
  IN IF ScriptSem(s).parses THEN f1
     ELSE Throw(Emit(f1, Ev(slot, "syntaxError", s, 0)))

\* scriptFn.call(null, ...): runs the top-level statements once.  The result
\* is the frame state with f.ret set to the returned value, or with exc set
\* when the text throws outside the wrapper's try block.
ScriptFnCall(f, slot, s) ==
  LET sem == ScriptSem(s)
      n == f.compiles[slot] + 1
      f1 == [Emit(f, Ev(slot, "top", s, 0)) EXCEPT !.ranTop[slot] = TRUE]
  IN IF sem.outside THEN Throw(f1)
     ELSE IF sem.top
       THEN [LogError(f1, slot, "errorInScript") EXCEPT
               !.ret = NoopModule(s, n), !.compiles[slot] = n]
     ELSE IF sem.ret = "unit"
       THEN [f1 EXCEPT !.ret = UnitModule(s, n), !.compiles[slot] = n]
     ELSE IF sem.ret = "null" THEN [f1 EXCEPT !.ret = NullModule]
     ELSE [f1 EXCEPT !.ret = UndefinedModule]

\* module.update.call(null, first, ...): the update function of a module.
UpdateCall(f, slot, m) ==
  LET sem == ScriptSem(m.src)
      f1 == Emit(f, Ev(slot, "update", m.src, m.id))
  IN IF m.kind = "noop" THEN f1
     ELSE IF sem.upd THEN Throw(Emit(f1, Ev(slot, "threw", m.src, m.id)))
     ELSE ScriptCalls(
            IF sem.cnt THEN [f1 EXCEPT !.userData[FirstArg(slot)] = @ + 1] ELSE f1,
            slot, m)

\* typeof m === 'object' && typeof m.update === 'function'
\* "call" when it holds, "skip" when m is undefined, "throw" when m is null
\* (typeof null is 'object' and null.update is a TypeError).
UpdateGuard(m) ==
  IF m.kind = "undefined" THEN "skip"
  ELSE IF m.kind = "null" THEN "throw"
  ELSE "call"

\* ---- Scene slot
\* The end of try { sceneScriptRef.current.module = scriptFn.call(...) }
\* catch (error) { console.error(...); module = { update: () => {} } }.
SceneConstructEnd(f) ==
  IF f.exc
    THEN [LogError(Caught(f), 0, "errorInitializing") EXCEPT
            !.sref.module = NoopModule(sceneScript, f.compiles[0] + 1),
            !.compiles[0] = @ + 1]
    ELSE [f EXCEPT !.sref.module = f.ret]

\* What follows new Function: nothing when it threw, else the guarded call.
SceneConstructCall(f) ==
  IF f.exc THEN f ELSE SceneConstructEnd(ScriptFnCall(f, 0, sceneScript))

SceneConstruct(f) == SceneConstructCall(NewFunction(f, 0, sceneScript))

\* catch (error) { console.error('Error executing scene script:', error) }
SceneUpdateCatch(f) ==
  IF f.exc THEN LogError(Caught(f), 0, "errorExecuting") ELSE f

SceneUpdateTry(f) == SceneUpdateCatch(UpdateCall(f, 0, f.sref.module))

\* if (typeof module === 'object' && typeof module.update === 'function')
SceneUpdateBlock(f) ==
  IF f.exc THEN f
  ELSE IF UpdateGuard(f.sref.module) = "throw"
    THEN Throw(Emit(f, Ev(0, "typeError", "", 0)))
  ELSE IF UpdateGuard(f.sref.module) = "skip" THEN f
  ELSE SceneUpdateTry(f)

SceneScriptBlock(f) ==
  IF ~Truthy(sceneScript) THEN f
  ELSE SceneUpdateBlock(IF Falsy(f.sref.module) THEN SceneConstruct(f) ELSE f)

\* ---- Entity slots
ScriptAt(i) == IF i <= Len(modelScripts) THEN modelScripts[i] ELSE Undefined

\* if (!modelScriptsRef.current[index]) modelScriptsRef.current[index] = {...}
ModelEntryCreate(f, i) ==
  IF f.mref[i].present THEN f
  ELSE [f EXCEPT !.mref[i] = Entry(ScriptAt(i), NullModule)]

\* The end of try { modelScriptsRef.current[index].module = scriptFn.call(...) }
\* catch (error) { console.error(...); module = { update: () => {} } }.
ModelConstructEnd(f, i) ==
  IF f.exc
    THEN [LogError(Caught(f), i, "errorInitializing") EXCEPT
            !.mref[i].module = NoopModule(ScriptAt(i), f.compiles[i] + 1),
            !.compiles[i] = @ + 1]
    ELSE [f EXCEPT !.mref[i].module = f.ret]

\* What follows new Function: nothing when it threw, else the entry is
\* created when missing and the guarded call is made.
ModelConstructCall(f, i) ==
  IF f.exc THEN f
  ELSE ModelConstructEnd(ScriptFnCall(ModelEntryCreate(f, i), i, ScriptAt(i)), i)

\* ModelConstruct that also starts the entity's userData afresh.
ModelConstructResetting(f, i) ==
  ModelConstructCall(
    NewFunction([f EXCEPT !.userData[FirstArg(i)] = 0], i, ScriptAt(i)), i)

ModelConstruct(f, i) == ModelConstructCall(NewFunction(f, i, ScriptAt(i)), i)

\* catch (error) { console.error(`Error executing script for model ...`) }
ModelUpdateCatch(f, i) ==
  IF f.exc THEN LogError(Caught(f), i, "errorExecuting") ELSE f

ModelUpdateTry(f, i) == ModelUpdateCatch(UpdateCall(f, i, f.mref[i].module), i)

\* if (typeof module === 'object' && typeof module.update === 'function')
ModelUpdateBlock(f, i) ==
  IF f.exc THEN f
  ELSE IF UpdateGuard(f.mref[i].module) = "throw"
    THEN Throw(Emit(f, Ev(i, "typeError", "", 0)))
  ELSE IF UpdateGuard(f.mref[i].module) = "skip" THEN f
  ELSE ModelUpdateTry(f, i)

\* The body of try { ... } at lines 470-550.
ModelScriptBody(f, i) ==
  ModelUpdateBlock(
    IF Falsy(f.mref[i].module) THEN ModelConstruct(f, i) ELSE f, i)

\* catch (error) { console.error(`Error in model script ${index}:`, error) }
ModelScriptCatch(f, i) ==
  IF f.exc THEN LogError(Caught(f), i, "errorInModelScript") ELSE f

\* ModelScriptStep without its two try/catch blocks: what the update or the
\* construction throws leaves the iteration.
ModelScriptStepUnguarded(f, i) ==
  IF ~Truthy(ScriptAt(i)) THEN f
  ELSE LET f0 == Emit(f, Ev(i, "dispatch", ScriptAt(i), 0))
           f1 == IF Falsy(f0.mref[i].module) THEN ModelConstruct(f0, i) ELSE f0
       IN IF f1.exc THEN f1
          ELSE LET g == UpdateGuard(f1.mref[i].module)
               IN IF g = "throw" THEN Throw(Emit(f1, Ev(i, "typeError", "", 0)))
                  ELSE IF g = "skip" THEN f1
                  ELSE UpdateCall(f1, i, f1.mref[i].module)

\* One iteration of uploadedModels.forEach.
ModelScriptStep(f, i) ==
  IF ~Truthy(ScriptAt(i)) THEN f
  ELSE ModelScriptCatch(
         ModelScriptBody(Emit(f, Ev(i, "dispatch", ScriptAt(i), 0)), i), i)

\* uploadedModels.forEach((model, index) => { ... }) from index i on; an
\* exception that leaves the callback ends the iteration.
RECURSIVE ModelLoop(_, _)
ModelLoop(f, i) ==
  IF f.exc \/ i > Len(uploadedModels) THEN f
  ELSE ModelLoop(ModelScriptStep(f, i), i + 1)

\* ExecuteBody with the model scripts dispatched before the scene script.
ExecuteBodyEntitiesFirst(f) ==
  IF ModelLoop(f, 1).exc THEN ModelLoop(f, 1)
  ELSE SceneScriptBlock(ModelLoop(f, 1))

\* The body of the outermost try: the scene script, then the model scripts.
ExecuteBody(f) == ModelLoop(SceneScriptBlock(f), 1)

\* catch (error) { console.error('Error in script execution:', error) }
ExecuteCatch(f) ==
  IF f.exc THEN LogError(Caught(f), 0, "errorInExecution") ELSE f

\* ExecuteScripts without the outermost try/catch.
ExecuteScriptsUncaught(f) == ExecuteBody(f)

\* try { scene script; model scripts } catch (error) { console.error }
ExecuteScripts(f) == ExecuteCatch(ExecuteBody(f))

\* A slot takes part in a running frame when it has a truthy source text
\* and, for an Entity slot, an entity at its index.
SlotText(slot) == IF slot = 0 THEN sceneScript ELSE ScriptAt(slot)
SlotLive(slot) ==
  /\ Truthy(SlotText(slot))
  /\ slot > 0 => slot <= Len(uploadedModels)

FrameStart ==
  [sref |-> sceneScriptRef, mref |-> modelScriptsRef, overlay |-> overlay,
   userData |-> userData, trace |-> <<Ev(0, "useFrame", "", 0)>>,
   exc |-> FALSE, ret |-> NullModule,
   compiles |-> compiles, ranTop |-> ranTop, playing |-> playing,
   input |-> input]

\* The refs and the world as the callback leaves them.
FrameEnd(f) ==
  /\ sceneScriptRef' = f.sref
  /\ modelScriptsRef' = f.mref
  /\ overlay' = f.overlay
  /\ userData' = f.userData
  /\ trace' = f.trace
  /\ escaped' = f.exc
  /\ ranTop' = f.ranTop
  /\ compiles' = f.compiles
  /\ playing' = f.playing
  /\ input' = f.input

\* MixerUpdate that advances the mixer in running mode only.
MixerUpdateRunningOnly(f) ==
  IF mixer /\ ~isEditMode THEN Emit(f, Ev(0, "mixerUpdate", "", 0)) ELSE f

\* if (mixer) mixer.update(delta)
MixerUpdate(f) == IF mixer THEN Emit(f, Ev(0, "mixerUpdate", "", 0)) ELSE f

\* A frame callback that dispatches the scripts in editing mode too.
FrameAlways ==
  /\ ~isEditMode => frameCount < MaxFrames
  /\ FrameEnd(ExecuteScripts(MixerUpdate(FrameStart)))
  /\ changed' = IF isEditMode THEN changed ELSE [s \in Slots |-> FALSE]
  /\ frameCount' = IF isEditMode THEN frameCount ELSE frameCount + 1
  /\ entered' = (isEditMode /\ entered)
  /\ UNCHANGED <<isEditMode, sceneScript, modelScripts, uploadedModels,
                 modelNames, selectedScript, overlayRef, effectPending,
                 editCount, created, modelFiles, mixer, activeModel,
                 activeModelIndex>>
  /\ UNCHANGED boundary

\* useFrame((state, delta) => { ... })
Frame ==
  /\ ~isEditMode => frameCount < MaxFrames
  /\ FrameEnd(IF isEditMode THEN MixerUpdate(FrameStart)
                 ELSE ExecuteScripts(MixerUpdate(FrameStart)))
  /\ changed' = IF isEditMode THEN changed ELSE [s \in Slots |-> FALSE]
  /\ frameCount' = IF isEditMode THEN frameCount ELSE frameCount + 1
  /\ entered' = (isEditMode /\ entered)
  /\ UNCHANGED <<isEditMode, sceneScript, modelScripts, uploadedModels,
                 modelNames, selectedScript, overlayRef, effectPending,
                 editCount, created, modelFiles, mixer, activeModel,
                 activeModelIndex>>
  /\ UNCHANGED boundary

\* ------------------------------------------------- the cache-reset effect
\* useEffect(() => { ... }, []) of the overlay, which creates the overlay
\* root and keeps it in overlayRef unless the document holds an element
\* with id scriptOverlay already, and
\* useEffect(() => { ... }, [sceneScript, modelScripts, isEditMode]):
\* the values the refs and the overlay have once the pending effects ran.
EffectSceneRef ==
  IF sceneScript # sceneScriptRef.script
    THEN Entry(sceneScript, NullModule)
    ELSE sceneScriptRef

EffectModelRefs ==
  [i \in EntitySlots |->
     IF i <= Len(modelScripts) /\ modelScripts[i] # Hole
          /\ (~modelScriptsRef[i].present
                \/ modelScriptsRef[i].script # modelScripts[i])
       THEN Entry(modelScripts[i], NullModule)
       ELSE modelScriptsRef[i]]

\* Flushed with an effect that leaves the overlay's children in place.
FlushedKeepingOverlay ==
  IF effectPending
    THEN [sref |-> EffectSceneRef, mref |-> EffectModelRefs,
          overlay |-> overlay, overlayRef |-> (overlayRef \/ ~foreignOverlay)]
    ELSE [sref |-> sceneScriptRef, mref |-> modelScriptsRef,
          overlay |-> overlay, overlayRef |-> overlayRef]

\* The refs as a new render finds them: React runs the passive effects of
\* the previous commit before it renders again.
Flushed ==
  IF effectPending
    THEN [sref |-> EffectSceneRef, mref |-> EffectModelRefs,
          overlay |-> <<>>, overlayRef |-> (overlayRef \/ ~foreignOverlay)]
    ELSE [sref |-> sceneScriptRef, mref |-> modelScriptsRef,
          overlay |-> overlay, overlayRef |-> overlayRef]

\* A render commits; depsChanged tells whether sceneScript, modelScripts or
\* isEditMode differ from the previous render's.
Commit(depsChanged) ==
  /\ sceneScriptRef' = Flushed.sref
  /\ modelScriptsRef' = Flushed.mref
  /\ overlay' = Flushed.overlay
  /\ overlayRef' = Flushed.overlayRef
  /\ effectPending' = depsChanged
  /\ trace' = <<>>
  /\ escaped' = FALSE

\* The passive effects of the last commit run.
Effect ==
  /\ effectPending
  /\ Commit(FALSE)
  /\ UNCHANGED <<isEditMode, sceneScript, modelScripts, uploadedModels,
                 modelNames, selectedScript, userData, changed, ranTop, compiles,
                 frameCount, editCount, entered, created, modelFiles, mixer,
                 playing, activeModel, activeModelIndex>>
  /\ UNCHANGED <<boundary, input>>

\* ------------------------------------------------------- Engine handlers
toggleEditMode ==
  /\ isEditMode' = ~isEditMode
  /\ Commit(TRUE)
  /\ entered' = isEditMode
  /\ UNCHANGED <<sceneScript, modelScripts, uploadedModels, modelNames,
                 selectedScript, userData, changed, ranTop, compiles, frameCount,
                 editCount, created, modelFiles, mixer, playing, activeModel,
                 activeModelIndex>>
  /\ UNCHANGED <<boundary, input>>

\* onClick={() => setSelectedScript('scene')} / setSelectedScript(index)
SelectScript(k) ==
  /\ k \in 0..Len(uploadedModels)
  /\ k # selectedScript
  /\ selectedScript' = k
  /\ Commit(FALSE)
  /\ UNCHANGED <<isEditMode, sceneScript, modelScripts, uploadedModels,
                 modelNames, userData, changed, ranTop, compiles, frameCount,
                 editCount, entered, created, modelFiles, mixer, playing,
                 activeModel, activeModelIndex>>
  /\ UNCHANGED <<boundary, input>>

\* [...array]: a copy in which holes have become undefined.
Spread(arr) == [i \in 1..Len(arr) |-> IF arr[i] = Hole THEN Undefined ELSE arr[i]]

\* copy[k] = value on an array: pads with holes up to index k.
SetAt(arr, k, value) ==
  [i \in 1..(IF k > Len(arr) THEN k ELSE Len(arr)) |->
     IF i = k THEN value
     ELSE IF i <= Len(arr) THEN arr[i]
     ELSE Hole]

handleScriptChange(value) ==
  /\ selectedScript >= 0
  /\ editCount' = editCount + 1
  /\ IF selectedScript = 0
       THEN /\ sceneScript' = value
            /\ UNCHANGED modelScripts
            /\ Commit(value # sceneScript)
       ELSE /\ modelScripts' = SetAt(Spread(modelScripts), selectedScript, value)
            /\ UNCHANGED sceneScript
            /\ Commit(TRUE)
  /\ ranTop' = [ranTop EXCEPT ![selectedScript] =
                  IF value # SlotText(selectedScript) THEN FALSE ELSE @]
  /\ changed' = [changed EXCEPT ![selectedScript] =
                   IF value # SlotText(selectedScript) /\ ~isEditMode /\ frameCount > 0
                     THEN TRUE ELSE @]
  /\ UNCHANGED <<isEditMode, uploadedModels, modelNames, selectedScript,
                 userData, compiles, frameCount, entered, created, modelFiles,
                 mixer, playing, activeModel, activeModelIndex>>
  /\ UNCHANGED <<boundary, input>>

\* The file names loadModel can be given: a glTF file takes the first
\* branch (model, name and default script are appended), an OBJ or FBX file
\* the other two (model and name only).
FileNames == {"a.glb", "b.obj", "c.fbx"}

IsGltf(fileName) == fileName = "a.glb"

\* The files loaded under Spec.
LoadedFiles == {"a.glb"}

\* The loader's completion callback of loadModel(fileName, content).  A
\* glTF file with clips creates the mixer when there is none.
loadModel(fileName) ==
  /\ fileName \in FileNames
  /\ created < MaxModels
  /\ created' = created + 1
  /\ uploadedModels' = Append(uploadedModels, created + 1)
  /\ modelNames' = Append(modelNames, fileName)
  /\ modelFiles' = [modelFiles EXCEPT ![created + 1] = fileName]
  /\ IF IsGltf(fileName)
       THEN /\ modelScripts' = Append(Spread(modelScripts), DEFAULT_MODEL_SCRIPT)
            /\ ranTop' = [s \in Slots |->
                            IF s = Len(modelScripts) + 1 THEN FALSE ELSE ranTop[s]]
            /\ mixer' = (mixer \/ Len(FileClips(fileName)) > 0)
            /\ Commit(TRUE)
       ELSE /\ UNCHANGED <<modelScripts, ranTop, mixer>>
            /\ Commit(FALSE)
  /\ UNCHANGED <<isEditMode, sceneScript, selectedScript, userData, changed,
                 compiles, frameCount, editCount, entered, playing,
                 activeModel, activeModelIndex>>
  /\ UNCHANGED <<boundary, input>>

\* onClick={() => handleModelClick(model, index)}
handleModelClick(index) ==
  /\ index \in 1..Len(uploadedModels)
  /\ activeModel' = uploadedModels[index]
  /\ activeModelIndex' = index
  /\ mixer' = (mixer \/ Len(Animations(uploadedModels[index])) > 0)
  /\ Commit(FALSE)
  /\ UNCHANGED <<isEditMode, sceneScript, modelScripts, uploadedModels,
                 modelNames, selectedScript, userData, changed, ranTop,
                 compiles, frameCount, editCount, entered, created,
                 modelFiles, playing>>
  /\ UNCHANGED <<boundary, input>>

\* array.splice(index, 1) on a copy.
Splice(arr, index) ==
  [k \in 1..(Len(arr) - 1) |-> IF k < index THEN arr[k] ELSE arr[k + 1]]

\* deleteModel(index): the model and its name are removed; modelScripts is
\* not touched.  Deleting the active model drops the mixer.
deleteModel(index) ==
  /\ index \in 1..Len(uploadedModels)
  /\ uploadedModels' = Splice(uploadedModels, index)
  /\ modelNames' = Splice(modelNames, index)
  /\ IF activeModelIndex = index
       THEN /\ activeModel' = 0
            /\ activeModelIndex' = 0
            /\ mixer' = FALSE
            /\ playing' = {}
       ELSE UNCHANGED <<activeModel, activeModelIndex, mixer, playing>>
  /\ Commit(FALSE)
  /\ UNCHANGED <<isEditMode, sceneScript, modelScripts, selectedScript,
                 userData, changed, ranTop, compiles, frameCount, editCount,
                 entered, created, modelFiles>>
  /\ UNCHANGED <<boundary, input>>

\* duplicateModel(index): a clone and its name are appended; no script is.
duplicateModel(index) ==
  /\ index \in 1..Len(uploadedModels)
  /\ created < MaxModels
  /\ created' = created + 1
  /\ uploadedModels' = Append(uploadedModels, created + 1)
  /\ modelNames' = Append(modelNames, modelNames[index] \o " (copy)")
  /\ modelFiles' = [modelFiles EXCEPT ![created + 1] = modelFiles[uploadedModels[index]]]
  /\ userData' = [userData EXCEPT ![created + 1] = userData[uploadedModels[index]]]
  /\ Commit(FALSE)
  /\ UNCHANGED <<isEditMode, sceneScript, modelScripts, selectedScript,
                 changed, ranTop, compiles, frameCount, editCount, entered,
                 mixer, playing, activeModel, activeModelIndex>>
  /\ UNCHANGED <<boundary, input>>

\* The names the model list's text field can give an entity.
RenameNames == {"hero"}

\* renameModel(index, newName), and the text field's onChange.
renameModel(index, newName) ==
  /\ index \in 1..Len(uploadedModels)
  /\ newName # modelNames[index]
  /\ modelNames' = [modelNames EXCEPT ![index] = newName]
  /\ Commit(FALSE)
  /\ UNCHANGED <<isEditMode, sceneScript, modelScripts, uploadedModels,
                 selectedScript, userData, changed, ranTop, compiles,
                 frameCount, editCount, entered, created, modelFiles, mixer,
                 playing, activeModel, activeModelIndex>>
  /\ UNCHANGED <<boundary, input>>

Next ==
  \/ Frame
  \/ Effect
  \/ toggleEditMode
  \/ \E k \in Slots : SelectScript(k)
  \/ \E value \in EditTexts : editCount < MaxEdits /\ handleScriptChange(value)
  \/ \E fileName \in LoadedFiles : loadModel(fileName)

Spec == Init /\ [][Next]_vars

\* The entity list under loads of every format, deletions and
\* duplications.  The sidebar that holds the model list, the script buttons
\* and the editor is shown in editing mode only; a load completes in either
\* mode.
EntityTexts == {"counter"}

NextEntities ==
  \/ Frame
  \/ Effect
  \/ toggleEditMode
  \/ \E fileName \in FileNames : loadModel(fileName)
  \/ \E k \in Slots : isEditMode /\ SelectScript(k)
  \/ \E value \in EntityTexts :
       isEditMode /\ editCount < MaxEdits /\ handleScriptChange(value)
  \/ \E index \in EntitySlots : isEditMode /\ deleteModel(index)
  \/ \E index \in EntitySlots : isEditMode /\ duplicateModel(index)

SpecEntities == Init /\ [][NextEntities]_vars

\* The lookups by name of a Scene script under loads, renames and
\* deletions.
NextLookup ==
  \/ ~isEditMode /\ Frame
  \/ Effect
  \/ toggleEditMode
  \/ \E fileName \in FileNames : loadModel(fileName)
  \/ isEditMode /\ SelectScript(0)
  \/ \E value \in LookupTexts :
       isEditMode /\ editCount < MaxEdits /\ handleScriptChange(value)
  \/ \E index \in EntitySlots : isEditMode /\ deleteModel(index)
  \/ \E index \in EntitySlots, newName \in RenameNames :
       isEditMode /\ renameModel(index, newName)

SpecLookup == Init /\ [][NextLookup]_vars

\* The shared mixer under scripts that play animations, with clicks on the
\* model list and deletions.  The frames taken are those of running mode:
\* an editing-mode frame dispatches nothing.
NextAnim ==
  \/ ~isEditMode /\ Frame
  \/ Effect
  \/ toggleEditMode
  \/ \E fileName \in FileNames : loadModel(fileName)
  \/ \E k \in Slots : isEditMode /\ SelectScript(k)
  \/ \E value \in PlayTexts :
       isEditMode /\ editCount < MaxPlayEdits /\ handleScriptChange(value)
  \/ \E index \in EntitySlots : isEditMode /\ handleModelClick(index)
  \/ \E index \in EntitySlots : isEditMode /\ deleteModel(index)

SpecAnim == Init /\ [][NextAnim]_vars

\* The shared mixer under scripts that play and scripts that stop.
StopEditTexts == {"playIdleA", "playWalkC", "stopMissing"}

\* The files whose objects carry clips.
ClipFiles == {"a.glb", "c.fbx"}

NextStop ==
  \/ ~isEditMode /\ Frame
  \/ Effect
  \/ toggleEditMode
  \/ \E fileName \in ClipFiles : loadModel(fileName)
  \/ \E k \in Slots : isEditMode /\ SelectScript(k)
  \/ \E value \in StopEditTexts :
       isEditMode /\ editCount < MaxPlayEdits /\ handleScriptChange(value)
  \/ \E index \in EntitySlots : isEditMode /\ handleModelClick(index)
  \/ \E index \in EntitySlots : isEditMode /\ deleteModel(index)

SpecStop == Init /\ [][NextStop]_vars

\* window 'keydown' of the w key: input.keys[e.key.toLowerCase()] = true
handleKeyDown ==
  /\ ~pressed
  /\ input' = TRUE
  /\ pressed' = TRUE
  /\ UNCHANGED <<isEditMode, sceneScript, modelScripts, uploadedModels,
                 modelNames, selectedScript, sceneScriptRef, modelScriptsRef,
                 overlayRef, overlay, userData, effectPending, trace, escaped,
                 changed, ranTop, compiles, frameCount, editCount, entered,
                 created, modelFiles, mixer, playing, activeModel,
                 activeModelIndex, foreignOverlay, generation, history>>

\* window 'keyup' of the w key: input.keys[e.key.toLowerCase()] = false
handleKeyUp ==
  /\ pressed
  /\ input' = FALSE
  /\ pressed' = FALSE
  /\ UNCHANGED <<isEditMode, sceneScript, modelScripts, uploadedModels,
                 modelNames, selectedScript, sceneScriptRef, modelScriptsRef,
                 overlayRef, overlay, userData, effectPending, trace, escaped,
                 changed, ranTop, compiles, frameCount, editCount, entered,
                 created, modelFiles, mixer, playing, activeModel,
                 activeModelIndex, foreignOverlay, generation, history>>

\* Slots without a source text next to slots with one: the editor can
\* empty a slot's text, and an edit of a slot beyond the end of modelScripts
\* leaves holes before it.
SkipTexts == {"", "counter", "syntaxErr"}

NextSkip ==
  \/ ~isEditMode /\ Frame
  \/ Effect
  \/ toggleEditMode
  \/ \E fileName \in FileNames : loadModel(fileName)
  \/ \E k \in Slots : isEditMode /\ SelectScript(k)
  \/ \E value \in SkipTexts :
       isEditMode /\ editCount < MaxPlayEdits /\ handleScriptChange(value)

SpecSkip == Init /\ [][NextSkip]_vars

\* The prompts given to generateScript and the chunks its stream delivers.
Prompts == {"patrol"}
Chunks == {"a", "b"}

\* generateScript behind a button that is enabled while a call is in flight.
generateScriptEnabled(prompt) ==
  /\ selectedScript >= 0
  /\ generation.calls < MaxGenerations
  /\ generation' = [active |-> TRUE, selectedScript |-> selectedScript,
                    modelScripts |-> modelScripts, prompt |-> prompt,
                    generatedScript |-> "", chunks |-> 0,
                    calls |-> generation.calls + 1,
                    streams |-> generation.streams + 1]
  /\ Commit(FALSE)
  /\ UNCHANGED <<isEditMode, sceneScript, modelScripts, uploadedModels,
                 modelNames, selectedScript, userData, changed, ranTop,
                 compiles, frameCount, editCount, entered, created,
                 modelFiles, mixer, playing, activeModel, activeModelIndex,
                 foreignOverlay, input, pressed, history>>

\* generateScript(prompt) up to the first await: the async function keeps
\* the selectedScript and modelScripts of the render it was created in.
generateScript(prompt) ==
  /\ selectedScript >= 0
  /\ ~generation.active
  /\ generation.calls < MaxGenerations
  /\ generation' = [active |-> TRUE, selectedScript |-> selectedScript,
                    modelScripts |-> modelScripts, prompt |-> prompt,
                    generatedScript |-> "", chunks |-> 0,
                    calls |-> generation.calls + 1,
                    streams |-> generation.streams + 1]
  /\ Commit(FALSE)
  /\ UNCHANGED <<isEditMode, sceneScript, modelScripts, uploadedModels,
                 modelNames, selectedScript, userData, changed, ranTop,
                 compiles, frameCount, editCount, entered, created,
                 modelFiles, mixer, playing, activeModel, activeModelIndex,
                 foreignOverlay, input, pressed, history>>

\* The text a slot has in an array of model scripts.
TextIn(scripts, slot) ==
  IF slot <= Len(scripts) /\ scripts[slot] # Hole THEN scripts[slot] ELSE Undefined

\* The ghosts of a step that sets the texts to scene and scripts.
TextsSet(scene, scripts) ==
  /\ ranTop' = [sl \in Slots |->
                  IF sl = 0 THEN (IF scene # sceneScript THEN FALSE ELSE ranTop[0])
                  ELSE IF TextIn(scripts, sl) # TextIn(modelScripts, sl)
                    THEN FALSE ELSE ranTop[sl]]
  /\ changed' = [sl \in Slots |->
                   IF ~isEditMode /\ frameCount > 0
                        /\ (IF sl = 0 THEN scene # sceneScript
                            ELSE TextIn(scripts, sl) # TextIn(modelScripts, sl))
                     THEN TRUE ELSE changed[sl]]

\* One iteration of for await (const chunk of stream).
StreamChunk(content) ==
  /\ generation.active
  /\ generation.chunks < MaxChunks
  /\ generation' = [generation EXCEPT !.generatedScript = @ \o content,
                                      !.chunks = @ + 1]
  /\ IF generation.selectedScript = 0
       THEN /\ sceneScript' = generation.generatedScript \o content
            /\ UNCHANGED modelScripts
            /\ Commit(sceneScript' # sceneScript)
       ELSE /\ modelScripts' = SetAt(Spread(generation.modelScripts),
                                     generation.selectedScript,
                                     generation.generatedScript \o content)
            /\ UNCHANGED sceneScript
            /\ Commit(TRUE)
  /\ TextsSet(sceneScript', modelScripts')
  /\ UNCHANGED <<isEditMode, uploadedModels, modelNames, selectedScript,
                 userData, compiles, frameCount, editCount, entered, created,
                 modelFiles, mixer, playing, activeModel, activeModelIndex,
                 foreignOverlay, input, pressed, history>>

\* const MAX_CONVERSATIONS = 50
MAX_CONVERSATIONS == 50

\* Date.now() and new Date() at a save: the clock has advanced with every
\* generation started, and the records stored by earlier visits are older.
Now == generation.calls

\* The entry addConversation creates for the Scene slot.
NewEntry(prompt, script) ==
  [id |-> Now, timestamp |-> Now, prompt |-> prompt, script |-> script,
   scriptType |-> "scene", modelName |-> "null"]

\* conversations.unshift(newEntry)
unshift(conversations, newEntry) == <<newEntry>> \o conversations

\* conversations.pop()
pop(conversations) == SubSeq(conversations, 1, Len(conversations) - 1)

\* if (conversations.length > MAX_CONVERSATIONS) conversations.pop()
Limited(conversations) ==
  IF Len(conversations) > MAX_CONVERSATIONS THEN pop(conversations)
  ELSE conversations

\* addConversation without the limit on the number of conversations.
addConversationUnlimited(prompt, script, selectedScriptType) ==
  IF selectedScriptType # 0 THEN "ReferenceError"
  ELSE unshift(history, NewEntry(prompt, script))

\* ConversationMemory.addConversation(prompt, script, selectedScriptType):
\* the conversations with the new entry in front, or "ReferenceError" when
\* the entry's modelName is evaluated, modelNames being no variable of the
\* scope ConversationMemory is defined in.
addConversation(prompt, script, selectedScriptType) ==
  IF selectedScriptType # 0 THEN "ReferenceError"
  ELSE Limited(unshift(history, NewEntry(prompt, script)))

\* The stream ended: addConversation is called, its exception is caught and
\* logged by generateScript's catch, and finally the call is over.
StreamEnd ==
  /\ generation.active
  /\ history' =
       IF addConversation(generation.prompt, generation.generatedScript,
                          generation.selectedScript) = "ReferenceError"
         THEN history
         ELSE addConversation(generation.prompt, generation.generatedScript,
                              generation.selectedScript)
  /\ generation' = [Idle EXCEPT !.calls = generation.calls,
                                !.streams = generation.streams - 1]
  /\ Commit(FALSE)
  /\ UNCHANGED <<isEditMode, sceneScript, modelScripts, uploadedModels,
                 modelNames, selectedScript, userData, changed, ranTop,
                 compiles, frameCount, editCount, entered, created,
                 modelFiles, mixer, playing, activeModel, activeModelIndex,
                 foreignOverlay, input, pressed>>

\* The call or the stream threw (getSceneState, the request, an iteration
\* of the stream): the catch logs the error, nothing is saved, and finally
\* the call is over.
StreamFail ==
  /\ generation.active
  /\ generation' = [Idle EXCEPT !.calls = generation.calls,
                                !.streams = generation.streams - 1]
  /\ Commit(FALSE)
  /\ UNCHANGED <<isEditMode, sceneScript, modelScripts, uploadedModels,
                 modelNames, selectedScript, userData, changed, ranTop,
                 compiles, frameCount, editCount, entered, created,
                 modelFiles, mixer, playing, activeModel, activeModelIndex,
                 foreignOverlay, input, pressed, history>>

\* ConversationHistory's Clear All button: conversationMemory
\* .clearConversations() is saveConversations([]).
clearConversations ==
  /\ history' = <<>>
  /\ Commit(FALSE)
  /\ UNCHANGED <<isEditMode, sceneScript, modelScripts, uploadedModels,
                 modelNames, selectedScript, userData, changed, ranTop,
                 compiles, frameCount, editCount, entered, created,
                 modelFiles, mixer, playing, activeModel, activeModelIndex,
                 foreignOverlay, input, pressed, generation>>

\* Script generation next to edits, selections and loads, in editing mode
\* (the sidebar that holds the generation controls is shown in that mode).
NextGen ==
  \/ Frame
  \/ Effect
  \/ \E fileName \in LoadedFiles : loadModel(fileName)
  \/ \E k \in Slots : isEditMode /\ SelectScript(k)
  \/ \E value \in EntityTexts :
       isEditMode /\ editCount < MaxEdits /\ handleScriptChange(value)
  \/ \E prompt \in Prompts : isEditMode /\ generateScript(prompt)
  \/ \E content \in Chunks : StreamChunk(content)
  \/ StreamEnd

SpecGen == Init /\ [][NextGen]_vars

\* The conversations an earlier visit left in localStorage: n records of
\* the Scene slot, newest first, all older than this visit's.
StoredHistory(n) ==
  [k \in 1..n |->
     [id |-> 1 - k, timestamp |-> 1 - k, prompt |-> "patrol", script |-> "a",
      scriptType |-> "scene", modelName |-> "null"]]

\* The stored history is empty, one short of full, or full.
StoredLengths == {0, MAX_CONVERSATIONS - 1, MAX_CONVERSATIONS}

InitHistory == \E n \in StoredLengths : MountedOver(FALSE, StoredHistory(n))

\* Generations that end or fail and clears of the history, over a stored
\* history of every length in StoredLengths.
NextHistory ==
  \/ Effect
  \/ \E fileName \in LoadedFiles : loadModel(fileName)
  \/ \E k \in Slots : SelectScript(k)
  \/ \E prompt \in Prompts : generateScript(prompt)
  \/ StreamChunk("a")
  \/ StreamEnd
  \/ StreamFail
  \/ clearConversations

SpecHistory == InitHistory /\ [][NextHistory]_vars

\* The input object under key events and scripts that read and write it.
NextInput ==
  \/ ~isEditMode /\ Frame
  \/ Effect
  \/ toggleEditMode
  \/ \E fileName \in LoadedFiles : loadModel(fileName)
  \/ \E k \in Slots : isEditMode /\ SelectScript(k)
  \/ \E value \in InputTexts :
       isEditMode /\ editCount < MaxPlayEdits /\ handleScriptChange(value)
  \/ handleKeyDown
  \/ handleKeyUp

SpecInput == Init /\ [][NextInput]_vars

\* The overlay under scripts that create and remove elements, in a document
\* that held or did not hold an element with id scriptOverlay at mount.
InitOverlay == \E foreign \in BOOLEAN : Mounted(foreign)

NextOverlay ==
  \/ Frame
  \/ Effect
  \/ toggleEditMode
  \/ \E fileName \in LoadedFiles : loadModel(fileName)
  \/ \E k \in Slots : SelectScript(k)
  \/ \E value \in OverlayTexts :
       editCount < MaxEdits /\ handleScriptChange(value)

SpecOverlay == InitOverlay /\ [][NextOverlay]_vars

\* ------------------------------------------------------------ properties
HasEv(t, slot, ev) == \E k \in 1..Len(t) : t[k].slot = slot /\ t[k].ev = ev

CountEv(t, slot, evs) ==
  Cardinality({k \in 1..Len(t) : t[k].slot = slot /\ t[k].ev \in evs})

\* The console.error calls of the frame callback.
ErrorLogs ==
  {"errorInScript", "errorInitializing", "errorExecuting",
   "errorInModelScript", "errorInExecution"}

\* The step is a frame callback that ran in running mode.
RunningFrameStep == frameCount' = frameCount + 1

\* A text that meets the input contract of the cache: it parses, its
\* top-level statements do not throw and it returns an object with update.
WellFormed(s) ==
  /\ Truthy(s)
  /\ ScriptSem(s).parses
  /\ ~ScriptSem(s).outside
  /\ ~ScriptSem(s).top
  /\ ScriptSem(s).ret = "unit"

\* The module a slot's cache holds.
Module(slot) ==
  IF slot = 0 THEN sceneScriptRef.module ELSE modelScriptsRef[slot].module

\* C1: while a slot's source text does not change, the running frames
\* execute the text's top-level statements exactly once in total: every
\* running frame leaves them executed, and a frame that finds them already
\* executed does not execute them again.
C1_CompileOnce ==
  [][\A s \in Slots :
       (RunningFrameStep /\ SlotLive(s) /\ WellFormed(SlotText(s)))
         => /\ ranTop'[s]
            /\ CountEv(trace', s, {"top"}) <= 1
            /\ ranTop[s] => ~HasEv(trace', s, "top")]_vars

\* C2: every update call of a running frame is made on a unit that was
\* constructed from the text the slot has in that frame.
C2_NoStaleUnit ==
  \A k \in 1..Len(trace) :
    trace[k].ev = "update" => trace[k].src = SlotText(trace[k].slot)

\* C3: the first running frame after a slot's text was changed (a running
\* frame came before the change) runs the new text's top-level statements
\* exactly once, calls no unit of the old text, and recompiles no slot whose
\* text is unchanged.
C3_Invalidation ==
  [][\A s \in Slots :
       (RunningFrameStep /\ changed[s] /\ SlotLive(s) /\ WellFormed(SlotText(s)))
         => /\ CountEv(trace', s, {"top"}) = 1
            /\ \A k \in 1..Len(trace') :
                 (trace'[k].slot = s /\ trace'[k].ev = "update")
                   => trace'[k].src = SlotText(s)
            /\ \A o \in Slots \ {s} :
                 (~changed[o] /\ ranTop[o]) => ~HasEv(trace', o, "top")]_vars

\* C4: after a frame in which the construction of a slot's unit failed (the
\* text did not parse, or its top-level statements threw), the slot's cache
\* holds a no-op unit.
ConstructionFailed(t, slot) ==
  \/ HasEv(t, slot, "syntaxError")
  \/ HasEv(t, slot, "errorInScript")
  \/ HasEv(t, slot, "errorInitializing")

C4_FailureLeavesNoop ==
  \A s \in Slots : ConstructionFailed(trace, s) => Module(s).kind = "noop"

\* C5: in a frame in which the update of Entity slot a threw, the Scene
\* slot's update was invoked, every other Entity slot with a script was
\* dispatched, and the update of each of them that holds a unit was invoked.
HasUpdate(m) == m.kind \in {"unit", "noop"}

C5_SiblingIsolation ==
  \A a \in EntitySlots :
    HasEv(trace, a, "threw")
      => /\ (Truthy(sceneScript) /\ HasUpdate(Module(0))) => HasEv(trace, 0, "update")
         /\ \A b \in EntitySlots \ {a} :
              SlotLive(b)
                => /\ HasEv(trace, b, "dispatch")
                   /\ HasUpdate(Module(b)) => HasEv(trace, b, "update")

C5_Witness ==
  /\ HasEv(trace, 1, "threw")
  /\ HasEv(trace, 0, "update")
  /\ HasEv(trace, 2, "update")

\* C6: every running frame dispatches every Entity slot that has a script,
\* whatever happened in the Scene slot's part of the frame.
C6_SceneFailureKeepsEntities ==
  [][RunningFrameStep
       => \A b \in EntitySlots : SlotLive(b) => HasEv(trace', b, "dispatch")]_vars

\* C7: no exception leaves the frame callback.
C7_NothingEscapes == ~escaped

\* The outermost catch stopped a SyntaxError of the Scene slot's text.
C7_Witness ==
  /\ ~escaped
  /\ HasEv(trace, 0, "syntaxError")
  /\ HasEv(trace, 0, "errorInExecution")

\* C8: a slot whose cache holds a unit constructed from its current text,
\* with an update that throws on every call, keeps that unit for as long as
\* the text does not change, and every running frame calls that unit, logs
\* exactly one error for the slot and constructs nothing.
C8_RuntimeThrowKeepsUnit ==
  [][\A s \in Slots :
       (/\ SlotLive(s)
        /\ Module(s).kind = "unit"
        /\ Module(s).src = SlotText(s)
        /\ ScriptSem(SlotText(s)).upd
        /\ SlotText(s)' = SlotText(s))
         => /\ Module(s)' = Module(s)
            /\ RunningFrameStep
                 => /\ CountEv(trace', s, ErrorLogs) = 1
                    /\ \E k \in 1..Len(trace') :
                         trace'[k] = Ev(s, "update", SlotText(s), Module(s).id)
                    /\ ~HasEv(trace', s, "parse")]_vars

\* C9: userData changes only by what the scripts' update calls write: a
\* step that is not a running frame leaves it unchanged, and a running
\* frame adds one to the counter of an entity for each update call of a
\* counting unit on that entity.
Increments(e) ==
  /\ e.ev = "update"
  /\ ScriptSem(e.src).cnt
  /\ ~ScriptSem(e.src).upd
  /\ ~ScriptSem(e.src).top
  /\ ~ScriptSem(e.src).outside

Writes(t, ent) ==
  Cardinality({k \in 1..Len(t) : Increments(t[k]) /\ FirstArg(t[k].slot) = ent})

C9_UserDataKept ==
  [][IF RunningFrameStep
       THEN \A ent \in 0..MaxModels :
              userData'[ent] = userData[ent] + Writes(trace', ent)
       ELSE userData' = userData]_vars

\* A counter written by a slot's first unit is still there, and was added
\* to, after the cache was reset and a second unit was constructed.
C9_Witness ==
  \E s \in EntitySlots :
    /\ SlotLive(s)
    /\ compiles[s] >= 2
    /\ userData[FirstArg(s)] >= 2

C11_RoundTripKeepsUnit ==
  [][\A s \in Slots :
       (/\ isEditMode \/ isEditMode' \/ RunningFrameStep
        /\ SlotLive(s)
        /\ Module(s).kind = "unit"
        /\ Module(s).src = SlotText(s)
        /\ SlotText(s)' = SlotText(s))
         => /\ Module(s)' = Module(s)
            /\ RunningFrameStep => ~HasEv(trace', s, "top")]_vars

\* C12: the first running frame after a switch from editing mode to running
\* mode constructs the unit of every slot that has a script anew.
C12_EnteringRunningInvalidates ==
  [][\A s \in Slots :
       (RunningFrameStep /\ entered /\ SlotLive(s))
         => HasEv(trace', s, "parse")]_vars

\* C13: a step taken in editing mode constructs no unit, invokes no update
\* (its record holds nothing but the advance of the mixer) and leaves what
\* the scripts write unchanged, and before the first running frame no
\* text's top-level statements have run.
C13_NoDispatchWhileEditing ==
  [][/\ isEditMode
       => /\ \A k \in 1..Len(trace') : trace'[k].ev \in {"useFrame", "mixerUpdate"}
          /\ compiles' = compiles
          /\ userData' = userData
          /\ \A s \in Slots : ranTop'[s] => ranTop[s]
          /\ Len(overlay') <= Len(overlay)
     /\ frameCount' = 0
       => \A s \in Slots : compiles'[s] = 0 /\ ~ranTop'[s]]_vars

\* Editing mode after running frames, with the Scene slot's unit cached and
\* an entity's counter written: frames in this mode leave both alone.
C13_Witness ==
  /\ isEditMode
  /\ ~effectPending
  /\ frameCount > 0
  /\ Module(0).kind = "unit"
  /\ \E e \in 1..MaxModels : userData[e] > 0
  /\ trace = <<Ev(0, "useFrame", "", 0), Ev(0, "mixerUpdate", "", 0)>>

\* C14: in the record of a frame the update calls appear in slot order, the
\* Scene slot first and the Entity slots in the order of uploadedModels,
\* which is the order in which the entities were loaded; each slot's
\* dispatch is over before the next slot's begins.
Dispatching == {"dispatch", "parse", "top", "update", "threw"}

C14_DispatchOrder ==
  /\ \A j, k \in 1..Len(trace) :
       (j < k /\ trace[j].ev = "update" /\ trace[k].ev = "update")
         => trace[j].slot < trace[k].slot
  /\ \A j, k \in 1..Len(trace) :
       (j < k /\ trace[j].ev \in Dispatching /\ trace[k].ev \in Dispatching)
         => trace[j].slot <= trace[k].slot
  /\ \A i, j \in 1..Len(uploadedModels) :
       i < j => uploadedModels[i] < uploadedModels[j]

C14_Witness ==
  /\ Len(trace) >= 3
  /\ \E i, j, k \in 1..Len(trace) :
       /\ i < j /\ j < k
       /\ trace[i].ev = "update" /\ trace[i].slot = 0
       /\ trace[j].ev = "update" /\ trace[j].slot = 1
       /\ trace[k].ev = "update" /\ trace[k].slot = 2

\* C15: every running frame adds exactly one to the counter of an entity
\* whose slot's text only increments that counter, and executes the text's
\* top-level statements only if no frame did so since the text was set.
CountsOnly(s) ==
  /\ WellFormed(s)
  /\ ScriptSem(s).cnt
  /\ ~ScriptSem(s).upd

C15_OneUpdatePerFrame ==
  [][\A s \in EntitySlots :
       (RunningFrameStep /\ SlotLive(s) /\ CountsOnly(SlotText(s)))
         => /\ userData'[FirstArg(s)] = userData[FirstArg(s)] + 1
            /\ CountEv(trace', s, {"top"}) = (IF ranTop[s] THEN 0 ELSE 1)]_vars

\* What a playAnimation call recorded in a frame asked for.
IsPlayCall(e) == e.ev = "playCall"

PlayTarget(e) == getModelByName(ScriptPlay(e.src).name)

PlayClip(e) == ScriptPlay(e.src).clip

\* The call names a loaded entity and a clip that entity has.
ValidPlay(e) ==
  /\ IsPlayCall(e)
  /\ PlayTarget(e) # 0
  /\ HasClip(Animations(PlayTarget(e)), PlayClip(e))

IsStopCall(e) == e.ev = "stopCall"

\* No playAnimation or stopAnimation call follows the call at position k.
LastPlayCall(t, k) ==
  \A j \in (k + 1)..Len(t) : ~IsPlayCall(t[j]) /\ ~IsStopCall(t[j])

\* C16: after a frame in which the scripts of two different entities called
\* playAnimation with different names of existing clips, the action playing
\* on the mixer is the one the later of the calls asked for.
C16_LastWriterWins ==
  \A j, k \in 1..Len(trace) :
    (/\ j < k
     /\ ValidPlay(trace[j]) /\ ValidPlay(trace[k])
     /\ trace[j].slot \in EntitySlots /\ trace[k].slot \in EntitySlots
     /\ trace[j].slot # trace[k].slot
     /\ PlayClip(trace[j]) # PlayClip(trace[k])
     /\ LastPlayCall(trace, k))
      => playing = {<<PlayTarget(trace[k]), PlayClip(trace[k])>>}

\* C17: after a frame whose last playAnimation call named a loaded entity
\* and a clip that entity has, that clip of that entity is the action
\* playing on the mixer.
C17_PlayPlaysTheClip ==
  \A k \in 1..Len(trace) :
    (ValidPlay(trace[k]) /\ LastPlayCall(trace, k))
      => playing = {<<PlayTarget(trace[k]), PlayClip(trace[k])>>}

\* C18: a playAnimation call that names no loaded entity, or a clip the
\* entity does not have, logs a diagnostic and throws nothing, and a frame
\* in which every call was of that kind leaves the playing action as it was.
PlayDiagnostics == {"noModelFound", "noAnimationsFound", "animationNotFound"}

C18_PlayMisuseIsNoop ==
  [][RunningFrameStep
       => /\ \A k \in 1..Len(trace') :
               (IsPlayCall(trace'[k]) /\ ~ValidPlay(trace'[k]))
                 => /\ k < Len(trace')
                    /\ trace'[k + 1].slot = trace'[k].slot
                    /\ trace'[k + 1].ev \in PlayDiagnostics
          /\ (\A k \in 1..Len(trace') :
                /\ IsPlayCall(trace'[k]) => ~ValidPlay(trace'[k])
                /\ ~IsStopCall(trace'[k]))
               => playing' = playing
          /\ ~escaped']_vars

\* C19: the slot list and the entity list have the same length, and every
\* slot holds a text (no hole, no undefined element).
C19_OneSlotPerEntity ==
  /\ Len(modelScripts) = Len(uploadedModels)
  /\ \A i \in 1..Len(modelScripts) : modelScripts[i] \notin {Hole, Undefined}

\* The index an entity has in a model list.
IndexOf(models, e) == CHOOSE i \in 1..Len(models) : models[i] = e

TextAt(scripts, i) == IF i <= Len(scripts) THEN scripts[i] ELSE Undefined

\* C20: every entity that remains after a deletion has, at its new
\* position, the source text and the cached module it had at its old
\* position, so the frames that follow dispatch it with its own text and
\* unit, and with them only.
C20_DeleteDestroysOwnSlot ==
  [][Len(uploadedModels') = Len(uploadedModels) - 1
       => \A k \in 1..Len(uploadedModels') :
            LET i == IndexOf(uploadedModels, uploadedModels'[k])
            IN /\ TextAt(modelScripts', k) = TextAt(modelScripts, i)
               /\ modelScriptsRef'[k].module = modelScriptsRef[i].module]_vars

\* C23: every frame callback that finds a mixer advances it exactly once,
\* in editing mode as in running mode, before anything else the callback
\* does; a callback that finds no mixer advances nothing.
IsMixerUpdate(e) == e.ev = "mixerUpdate"

C23_MixerAdvancedFirst ==
  Len(trace) > 0
    => /\ trace[1].ev = "useFrame"
       /\ IF mixer
            THEN /\ Len(trace) >= 2
                 /\ IsMixerUpdate(trace[2])
                 /\ \A k \in 3..Len(trace) : ~IsMixerUpdate(trace[k])
            ELSE \A k \in 1..Len(trace) : ~IsMixerUpdate(trace[k])

\* An editing-mode frame advanced the mixer and dispatched nothing, after
\* running frames that advanced it before the Scene slot's update.
C23_Witness ==
  /\ isEditMode
  /\ mixer
  /\ frameCount > 0
  /\ trace = <<Ev(0, "useFrame", "", 0), Ev(0, "mixerUpdate", "", 0)>>

\* C24: at most one action plays on the mixer, none without a mixer, and
\* after a frame whose last playAnimation or stopAnimation call was a
\* stopAnimation call, whatever name it was given and whatever slot made
\* it, no action plays.
C24_OneClipAtATime ==
  /\ Cardinality(playing) <= 1
  /\ ~mixer => playing = {}
  /\ \A k \in 1..Len(trace) :
       (IsStopCall(trace[k]) /\ LastPlayCall(trace, k)) => playing = {}

\* A frame in which a clip was played and a later slot called
\* stopAnimation with the name of no loaded entity: nothing plays.
C24_Witness ==
  /\ playing = {}
  /\ \E j, k \in 1..Len(trace) :
       /\ j < k
       /\ trace[j].ev = "playing"
       /\ IsStopCall(trace[k])
       /\ ScriptStop(trace[k].src) = "missing"
       /\ trace[j].slot # trace[k].slot

\* The entity a lookup by name is to return: the loaded entity at the first
\* position whose current name is the name, 0 (null) when there is none.
IsFirstNamed(i, name) ==
  /\ i \in 1..Len(modelNames)
  /\ modelNames[i] = name
  /\ \A j \in 1..(i - 1) : modelNames[j] # name

\* C25: every getModelByName call of a frame returned the loaded entity at
\* the first position whose current name equals the argument, and null when
\* no loaded entity has that name; getAnimationsForModel returned that
\* entity's clips in order, and the empty sequence when the name is unknown.
C25_LookupByName ==
  \A k \in 1..Len(trace) :
    trace[k].ev = "lookup"
      => IF \E i \in 1..Len(modelNames) : modelNames[i] = trace[k].src
           THEN \E i \in 1..Len(uploadedModels) :
                  /\ IsFirstNamed(i, trace[k].src)
                  /\ trace[k].id = uploadedModels[i]
                  /\ trace[k].clips = FileClips(modelFiles[uploadedModels[i]])
           ELSE trace[k].id = 0 /\ trace[k].clips = <<>>

\* After a rename and a deletion, a lookup of "hero" returned the entity
\* created second, with its clips.
C25_Witness ==
  /\ Len(uploadedModels) < created
  /\ \E k \in 1..Len(trace) :
       /\ trace[k].ev = "lookup"
       /\ trace[k].src = "hero"
       /\ trace[k].id = 2
       /\ Len(trace[k].clips) > 0

\* The overlay's children after the createHTML and removeHTML calls of a
\* frame's record from position k on, as the calls are to behave: a call
\* with a fragment that has a root element appends that element, a removal
\* by the id of a child removes the first child of that id, and every other
\* call leaves the children as they are.
RECURSIVE OverlayAfter(_, _, _)
OverlayAfter(t, k, children) ==
  IF k > Len(t) THEN children
  ELSE IF t[k].ev = "createCall" /\ FirstElementChild(t[k].src) # ""
    THEN OverlayAfter(t, k + 1, Append(children, FirstElementChild(t[k].src)))
  ELSE IF t[k].ev = "removeCall" /\ FirstChildWithId(children, t[k].src) # 0
    THEN OverlayAfter(t, k + 1,
                      RemoveAt(children, FirstChildWithId(children, t[k].src)))
  ELSE OverlayAfter(t, k + 1, children)

\* C21: a removeHTML call with the id of an element of the overlay removes
\* that element, a call with any other id leaves the overlay as it is, and
\* no removeHTML call throws.
C21_RemoveByIdentifier ==
  [][(RunningFrameStep /\ overlayRef)
       => /\ overlay' = OverlayAfter(trace', 1, overlay)
          /\ \A k \in 1..Len(trace') : trace'[k].ev # "notFoundError"]_vars

\* The createHTML calls of a frame's record that had a fragment with a root
\* element, as the ids of those elements.
RECURSIVE Created(_, _)
Created(t, k) ==
  IF k > Len(t) THEN <<>>
  ELSE IF t[k].ev = "createCall" /\ FirstElementChild(t[k].src) # ""
    THEN <<FirstElementChild(t[k].src)>> \o Created(t, k + 1)
  ELSE Created(t, k + 1)

\* C26: in a frame without removeHTML calls the overlay gains exactly one
\* element for every createHTML call whose fragment has a root element, in
\* call order and whether or not the overlay holds an element of that id
\* already, and nothing for a call whose fragment has none.
C26_CreateAppendsEveryCall ==
  [][(RunningFrameStep /\ overlayRef
        /\ \A k \in 1..Len(trace') : trace'[k].ev # "removeCall")
       => overlay' = overlay \o Created(trace', 1)]_vars

\* Two frames appended the default scene script's element twice, and the
\* second frame's createHTML call with a fragment of text added nothing.
C26_Witness ==
  /\ Len(overlay) = 2
  /\ overlay[1] = "gameUI"
  /\ overlay[2] = "gameUI"
  /\ \E k \in 1..Len(trace) :
       trace[k].ev = "createCall" /\ FirstElementChild(trace[k].src) = ""

\* C27: while overlayRef holds no overlay root, the createHTML and
\* removeHTML calls of a frame change nothing and throw nothing.
C27_NoOverlayNoEffect ==
  [][(RunningFrameStep /\ ~overlayRef)
       => /\ overlay' = overlay
          /\ ~escaped'
          /\ \A k \in 1..Len(trace') :
               trace'[k].ev \notin ErrorLogs \cup {"notFoundError", "typeError"}]_vars

\* The document held a foreign scriptOverlay element: a frame called
\* createHTML and removeHTML('scriptOverlay') and the overlay is untouched.
C27_Witness ==
  /\ ~overlayRef
  /\ overlay = <<>>
  /\ \E j, k \in 1..Len(trace) :
       /\ trace[j].ev = "createCall"
       /\ trace[k].ev = "removeCall"
       /\ trace[k].src = OverlayId

\* C28: what an update reads in input.keys.w is what the key events
\* received so far make it, whatever the updates dispatched before it did.
C28_InputReadOnly ==
  [][RunningFrameStep
       => \A k \in 1..Len(trace') :
            trace'[k].ev = "observed"
              => trace'[k].src = (IF pressed THEN "w" ELSE "")]_vars

\* A generateScript call ends in this step.
GenerationEnds == generation.active /\ ~generation'.active

\* C22: the end of every script generation puts one record in front of the
\* history, with the prompt, the generated text, the tag of the slot kind
\* and, for an Entity slot, the name the target entity has at that time.
C22_HistoryRecordOnSave ==
  [][GenerationEnds
       => /\ Len(history') = Len(history) + 1
          /\ SubSeq(history', 2, Len(history')) = history
          /\ history'[1].prompt = generation.prompt
          /\ history'[1].script = generation.generatedScript
          /\ history'[1].scriptType =
               (IF generation.selectedScript = 0 THEN "scene" ELSE "model")
          /\ (generation.selectedScript \in 1..Len(modelNames))
               => history'[1].modelName = modelNames[generation.selectedScript]]_vars

\* A chunk of the stream arrives in this step.
ChunkArrives == generation.active /\ generation'.chunks = generation.chunks + 1

\* C29: after each chunk of a stream that targets Entity slot i, slot i's
\* text is the concatenation of the chunks received so far, and the text of
\* every other slot, the Scene slot included, is what it was before the
\* chunk.
C29_StreamWritesOnlyTarget ==
  [][(ChunkArrives /\ generation.selectedScript > 0)
       => /\ TextIn(modelScripts', generation.selectedScript)
               = generation'.generatedScript
          /\ sceneScript' = sceneScript
          /\ \A j \in EntitySlots \ {generation.selectedScript} :
               TextIn(modelScripts', j) = TextIn(modelScripts, j)]_vars

\* A frame's record holds no construction and no update call of the slot.
Skipped(t, slot) ==
  /\ ~HasEv(t, slot, "parse")
  /\ ~HasEv(t, slot, "top")
  /\ ~HasEv(t, slot, "update")

\* C30: a running frame neither constructs nor invokes the Scene slot when
\* its text is empty, and dispatches every Entity slot that has a script;
\* it skips an entity whose slot has no text and dispatches every entity
\* after it whose slot has a script.
C30_EmptySlotSkipped ==
  [][RunningFrameStep
       => /\ ~Truthy(sceneScript)
               => /\ Skipped(trace', 0)
                  /\ \A b \in EntitySlots : SlotLive(b) => HasEv(trace', b, "dispatch")
          /\ \A a \in 1..Len(uploadedModels) :
               ~Truthy(ScriptAt(a))
                 => /\ Skipped(trace', a)
                    /\ \A b \in (a + 1)..Len(uploadedModels) :
                         SlotLive(b) => HasEv(trace', b, "dispatch")]_vars

\* C31: a running frame adds a script-created element to the overlay only
\* when the effect of the last change of the Scene text, of the Entity texts
\* or of the mode has run, that is, after that change emptied the overlay.
C31_ChangeEmptiesOverlay ==
  [][(RunningFrameStep /\ overlayRef /\ Created(trace', 1) # <<>>)
       => ~effectPending]_vars

\* The records of a history are ordered from the most recently saved to
\* the oldest.
NewestFirst(h) == \A k \in 1..(Len(h) - 1) : h[k].id > h[k + 1].id

\* C32: the stored history never holds more than MAX_CONVERSATIONS records
\* and is ordered newest first; a generation's end that changes it puts one
\* record in front of the records it held, without the oldest of them when
\* it was full; any other change of it, the Clear All button's, leaves it
\* empty.
C32_HistoryBoundedNewestFirst ==
  [][/\ Len(history') <= MAX_CONVERSATIONS
     /\ NewestFirst(history')
     /\ (GenerationEnds /\ history' # history)
          => /\ Len(history') > 0
             /\ SubSeq(history', 2, Len(history')) =
                  (IF Len(history) = MAX_CONVERSATIONS
                     THEN SubSeq(history, 1, MAX_CONVERSATIONS - 1)
                     ELSE history)
     /\ (~GenerationEnds /\ history' # history) => history' = <<>>]_vars

\* Two saves into a full stored history: the history is full, its newest
\* record is the second save and its two oldest records are gone.
C32_Witness ==
  /\ Len(history) = MAX_CONVERSATIONS
  /\ history[1].id = 2
  /\ history[2].id = 1
  /\ history[MAX_CONVERSATIONS].id = 3 - MAX_CONVERSATIONS

\* A generateScript call starts in this step.
GenerationStarts == generation'.calls = generation.calls + 1

\* A generateScript call returns in this step.
GenerationReturns == generation'.streams = generation.streams - 1

\* C33: a generation starts only while the generating flag is clear and
\* sets it; the flag is clear once a generation has returned, whether its
\* stream completed or it failed; at most one generation is in flight, and
\* the flag is set exactly while one is.
C33_FlagBracketsGeneration ==
  [][/\ GenerationStarts => (~generation.active /\ generation'.active)
     /\ GenerationReturns => (generation.active /\ ~generation'.active)
     /\ generation'.streams <= 1
     /\ generation'.active <=> (generation'.streams = 1)]_vars

\* A generation for the Scene slot failed after its first chunk was
\* written: the flag is clear and nothing was saved.
C33_Witness ==
  /\ ~generation.active
  /\ generation.streams = 0
  /\ generation.calls = 1
  /\ sceneScript = "a"
  /\ Len(history) = MAX_CONVERSATIONS - 1
  /\ history[1].id = 0

====
